---------------------------- MODULE Spec2Model ----------------------------
(***************************************************************************)
(* Open Metrics text exposition encoder (src/src/encoding/text.rs).        *)
(*                                                                         *)
(* The output sink is the sequence of byte strings handed to write_all,    *)
(* one element per call; Concat(out) is their concatenation.  One thread   *)
(* runs encode; the other actions are the metric updates and label-set     *)
(* insertions that other threads make while it runs.                       *)
(***************************************************************************)
EXTENDS Integers, Sequences, FiniteSets, TLC

\* ------------------------------------------------------------------ bounds
MaxEntries == 2      \* registry entries
MaxMembers == 2      \* label sets per family
MaxOps     == 2      \* metric updates and insertions in one behaviour
MaxPasses  == 2      \* encode calls in one behaviour
NumBuckets == 2      \* stored buckets of a histogram (the last is the sentinel)

\* f64 values are counted in halves: 3 stands for 1.5.  F64_MAX stands for
\* f64::MAX, the upper bound that encode_bucket renders as +Inf.
F64_MAX == 1000000

None == [some |-> FALSE]
Some(v) == [some |-> TRUE, v |-> v]

\* ------------------------------------------------------------- the sink
\* A writer: the chunks written so far, the number of write_all calls made,
\* how many more calls succeed (-1: all of them), the error it fails with
\* and the error its failing call returned ("" while none failed).
Writer(written, calls, budget, err) ==
    [written |-> written, calls |-> calls, budget |-> budget, err |-> err,
     raised |-> ""]

Ok(w) == [w |-> w, ok |-> TRUE, err |-> ""]
Err(w, e) == [w |-> w, ok |-> FALSE, err |-> e]

\* writer.write_all(bytes)
write_all(w, bytes) ==
    IF w.budget = 0
    THEN Err([w EXCEPT !.calls = @ + 1, !.raised = w.err], w.err)
    ELSE Ok([w EXCEPT !.written = Append(@, bytes),
                      !.calls = @ + 1,
                      !.budget = IF @ > 0 THEN @ - 1 ELSE @])

\* write_all(c1)?; write_all(c2)?; ... for the chunks in order: the first
\* failing call returns its error and the later calls are not made.
RECURSIVE write_seq(_, _)
write_seq(w, chunks) ==
    IF chunks = <<>> THEN Ok(w)
    ELSE LET r == write_all(w, Head(chunks))
         IN IF r.ok THEN write_seq(r.w, Tail(chunks)) ELSE r

\* ------------------------------------------------------------ value codec
Digit(d) == <<"0", "1", "2", "3", "4", "5", "6", "7", "8", "9">>[d + 1]

\* itoa::write
RECURSIVE Itoa(_)
Itoa(n) == IF n < 10 THEN Digit(n) ELSE Itoa(n \div 10) \o Digit(n % 10)

\* dtoa::write on a value counted in halves
Dtoa(h) ==
    IF h = F64_MAX THEN "1.7976931348623157e308"
    ELSE Itoa(h \div 2) \o (IF h % 2 = 0 THEN ".0" ELSE ".5")

\* impl Encode for u64
encode_u64(w, v) == write_all(w, Itoa(v))

\* impl Encode for f64
encode_f64(w, v) == write_all(w, Dtoa(v))

\* (mutant) a comma written after every pair, the last one too
RECURSIVE encode_pairs_trailing(_, _)
encode_pairs_trailing(w, pairs) ==
    IF pairs = <<>> THEN Ok(w)
    ELSE LET r == write_seq(w, <<Head(pairs)[1], "=\"", Head(pairs)[2], "\"", ",">>)
         IN IF ~r.ok THEN r ELSE encode_pairs_trailing(r.w, Tail(pairs))

\* impl Encode for Vec<(String, String)>
\* the while-let loop of it: one pair, then "," when another pair follows
RECURSIVE encode_pairs(_, _)
encode_pairs(w, pairs) ==
    IF pairs = <<>> THEN Ok(w)
    ELSE LET r == write_seq(w, <<Head(pairs)[1], "=\"", Head(pairs)[2], "\"">>)
         IN IF ~r.ok THEN r
            ELSE IF Tail(pairs) # <<>>
                 THEN LET r2 == write_all(r.w, ",")
                      IN IF ~r2.ok THEN r2 ELSE encode_pairs(r2.w, Tail(pairs))
                 ELSE Ok(r.w)

encode_label_set(w, labels) ==
    IF labels = <<>> THEN Ok(w) ELSE encode_pairs(w, labels)

\* impl Encode for MetricType
MetricTypeToken(t) ==
    CASE t = "Counter" -> "counter"
      [] t = "Gauge" -> "gauge"
      [] t = "Histogram" -> "histogram"
      [] OTHER -> "unknown"

encode_metric_type(w, t) == write_all(w, MetricTypeToken(t))

\* impl Encode for Unit
UnitToken(u) ==
    CASE u.tag = "Amperes" -> "amperes"
      [] u.tag = "Bytes" -> "bytes"
      [] u.tag = "Celsius" -> "celsius"
      [] u.tag = "Grams" -> "grams"
      [] u.tag = "Joules" -> "joules"
      [] u.tag = "Meters" -> "meters"
      [] u.tag = "Ratios" -> "ratios"
      [] u.tag = "Seconds" -> "seconds"
      [] u.tag = "Volts" -> "volts"
      [] OTHER -> u.other

encode_unit(w, u) == write_all(w, UnitToken(u))

\* A typed value handed to ValueEncoder::encode_value (V: Encode)
U64(n) == [t |-> "u64", n |-> n]
F64(h) == [t |-> "f64", n |-> h]

encode_V(w, v) == IF v.t = "u64" THEN encode_u64(w, v.n) ELSE encode_f64(w, v.n)

\* ------------------------------------------------- staged encoder protocol
\* struct Encoder (its writer is passed beside it)
Encoder(name, unit, labels) == [name |-> name, unit |-> unit, labels |-> labels]

\* (mutant) the unit left out of the name on sample lines
write_name_only(enc, w) == write_all(w, enc.name)

\* Encoder::write_name_and_unit
write_name_and_unit(enc, w) ==
    LET r == write_all(w, enc.name)
    IN IF ~r.ok THEN r
       ELSE IF enc.unit.some
            THEN LET r2 == write_all(r.w, "_")
                 IN IF ~r2.ok THEN r2 ELSE encode_unit(r2.w, enc.unit.v)
            ELSE Ok(r.w)

\* The result of a stage that yields a BucketEncoder
OkBucketEncoder(w, opened) ==
    [w |-> w, ok |-> TRUE, err |-> "", opened_curly_brackets |-> opened]

\* Encoder::encode_labels
encode_labels(enc, w) ==
    IF enc.labels.some
    THEN LET r == write_all(w, "{")
         IN IF ~r.ok THEN r
            ELSE LET r2 == encode_label_set(r.w, enc.labels.v)
                 IN IF ~r2.ok THEN r2 ELSE OkBucketEncoder(r2.w, TRUE)
    ELSE OkBucketEncoder(w, FALSE)

\* Encoder::encode_suffix
encode_suffix(enc, w, suffix) ==
    LET r == write_name_and_unit(enc, w)
    IN IF ~r.ok THEN r
       ELSE LET r2 == write_seq(r.w, <<"_", suffix>>)
            IN IF ~r2.ok THEN r2 ELSE encode_labels(enc, r2.w)

\* Encoder::no_suffix
no_suffix(enc, w) ==
    LET r == write_name_and_unit(enc, w)
    IN IF ~r.ok THEN r ELSE encode_labels(enc, r.w)

\* debug_assert!(self.labels.is_none()) passes: a build without
\* debug_assertions (the release profile) has no such check
debug_assert_labels_is_none(enc, debug_assertions) ==
    ~debug_assertions \/ ~enc.labels.some

\* (mutant) the label set is not attached to the encoder handed on
with_label_set_dropped(enc, label_set) == Encoder(enc.name, enc.unit, enc.labels)

\* Encoder::with_label_set, past the debug_assert
with_label_set(enc, label_set) == Encoder(enc.name, enc.unit, Some(label_set))

\* (mutant) every upper bound written as the number it is
encode_bucket_raw(be, upper_bound) ==
    LET r == IF be.opened_curly_brackets
             THEN write_all(be.w, ", ")
             ELSE write_all(be.w, "{")
    IN IF ~r.ok THEN r
       ELSE LET r2 == write_all(r.w, "le=\"")
            IN IF ~r2.ok THEN r2
               ELSE LET r3 == encode_f64(r2.w, upper_bound)
                    IN IF ~r3.ok THEN r3 ELSE write_all(r3.w, "\"}")

\* (mutant) the le label always opens a block of its own
encode_bucket_fresh(be, upper_bound) ==
    LET r == write_all(be.w, "{")
    IN IF ~r.ok THEN r
       ELSE LET r2 == write_all(r.w, "le=\"")
            IN IF ~r2.ok THEN r2
               ELSE LET r3 == IF upper_bound = F64_MAX
                              THEN write_all(r2.w, "+Inf")
                              ELSE encode_f64(r2.w, upper_bound)
                    IN IF ~r3.ok THEN r3 ELSE write_all(r3.w, "\"}")

\* BucketEncoder::encode_bucket
encode_bucket(be, upper_bound) ==
    LET r == IF be.opened_curly_brackets
             THEN write_all(be.w, ", ")
             ELSE write_all(be.w, "{")
    IN IF ~r.ok THEN r
       ELSE LET r2 == write_all(r.w, "le=\"")
            IN IF ~r2.ok THEN r2
               ELSE LET r3 == IF upper_bound = F64_MAX
                              THEN write_all(r2.w, "+Inf")
                              ELSE encode_f64(r2.w, upper_bound)
                    IN IF ~r3.ok THEN r3 ELSE write_all(r3.w, "\"}")

\* BucketEncoder::no_bucket
no_bucket(be) ==
    IF be.opened_curly_brackets THEN write_all(be.w, "}") ELSE Ok(be.w)

\* ValueEncoder::encode_value
encode_value(w, v) ==
    LET r == write_all(w, " ")
    IN IF ~r.ok THEN r
       ELSE LET r2 == encode_V(r.w, v)
            IN IF ~r2.ok THEN r2 ELSE write_all(r2.w, "\n")

\* ------------------------------------------------- per-kind sample lines
\* encoder.encode_suffix(suffix)?.no_bucket()?.encode_value(v)?
suffixed_line(enc, w, suffix, v) ==
    LET r == encode_suffix(enc, w, suffix)
    IN IF ~r.ok THEN r
       ELSE LET r2 == no_bucket(r)
            IN IF ~r2.ok THEN r2 ELSE encode_value(r2.w, v)

\* (mutant) the counter's line written without its suffix
counter_encode_no_suffix(enc, w, value) ==
    LET r == no_suffix(enc, w)
    IN IF ~r.ok THEN r
       ELSE LET r2 == no_bucket(r)
            IN IF ~r2.ok THEN r2 ELSE encode_value(r2.w, U64(value))

\* Counter::encode, given the value self.get() returns
counter_encode(enc, w, value) == suffixed_line(enc, w, "total", U64(value))

\* (mutant) the gauge's line written with the counter's suffix
gauge_encode_total(enc, w, value) == suffixed_line(enc, w, "total", U64(value))

\* Gauge::encode, given the value self.get() returns
gauge_encode(enc, w, value) ==
    LET r == no_suffix(enc, w)
    IN IF ~r.ok THEN r
       ELSE LET r2 == no_bucket(r)
            IN IF ~r2.ok THEN r2 ELSE encode_value(r2.w, U64(value))

\* One turn of the bucket loop of Histogram::encode
bucket_line(enc, w, upper_bound, count) ==
    LET r == encode_suffix(enc, w, "bucket")
    IN IF ~r.ok THEN r
       ELSE LET r2 == encode_bucket(r, upper_bound)
            IN IF ~r2.ok THEN r2 ELSE encode_value(r2.w, U64(count))

\* Line l of Histogram::encode from the snapshot (sum, count, buckets):
\* 1 is _sum, 2 is _count, 2 + b is bucket b.
histogram_line(enc, w, snap, l) ==
    IF l = 1 THEN suffixed_line(enc, w, "sum", F64(snap.sum))
    ELSE IF l = 2 THEN suffixed_line(enc, w, "count", U64(snap.count))
    ELSE bucket_line(enc, w, snap.buckets[l - 2][1], snap.buckets[l - 2][2])

\* (mutant) the TYPE line written before the HELP line
header_type_first(w, desc, mtype) ==
    LET name_unit == <<desc.name>> \o
                     (IF desc.unit.some THEN <<"_", UnitToken(desc.unit.v)>> ELSE <<>>)
        help == <<"# HELP ">> \o name_unit \o <<" ", desc.help, "\n">>
        type == <<"# TYPE ">> \o name_unit \o <<" ", MetricTypeToken(mtype), "\n">>
        unit == IF desc.unit.some
                THEN <<"# UNIT ", desc.name, "_", UnitToken(desc.unit.v), " ",
                       UnitToken(desc.unit.v), "\n">>
                ELSE <<>>
    IN write_seq(w, type \o help \o unit)

\* The header lines of one registry entry (encode, the loop body up to the
\* construction of the Encoder)
header(w, desc, mtype) ==
    LET name_unit == <<desc.name>> \o
                     (IF desc.unit.some THEN <<"_", UnitToken(desc.unit.v)>> ELSE <<>>)
        help == <<"# HELP ">> \o name_unit \o <<" ", desc.help, "\n">>
        type == <<"# TYPE ">> \o name_unit \o <<" ", MetricTypeToken(mtype), "\n">>
        unit == IF desc.unit.some
                THEN <<"# UNIT ", desc.name, "_", UnitToken(desc.unit.v), " ",
                       UnitToken(desc.unit.v), "\n">>
                ELSE <<>>
    IN write_seq(w, help \o type \o unit)

\* ---------------------------------------------------------------- metrics
Seconds == [tag |-> "Seconds", other |-> ""]
Bytes == [tag |-> "Bytes", other |-> ""]
OtherUnit(s) == [tag |-> "Other", other |-> s]

\* Counter::new, Gauge::new
NewCounter == [kind |-> "Counter", value |-> 0]
NewGauge == [kind |-> "Gauge", value |-> 0]

\* exponential_series(1.0, 2.0) in halves: 1.0, 2.0, 4.0, ...
RECURSIVE exponential_series(_)
exponential_series(n) == IF n = 0 THEN <<>> ELSE
    Append(exponential_series(n - 1), IF n = 1 THEN 2 ELSE 2 * exponential_series(n - 1)[n - 1])

\* Histogram::new: the given finite bounds, ascending, then the sentinel
NewHistogram ==
    [kind |-> "Histogram", sum |-> 0, count |-> 0,
     buckets |-> [b \in 1..NumBuckets |->
                    <<IF b = NumBuckets THEN F64_MAX
                      ELSE exponential_series(NumBuckets)[b], 0>>]]

\* Family::default / new_with_constructor: no member yet; child is what
\* the constructor of a member returns
NewFamily(child) == [kind |-> "Family", child |-> child, members |-> <<>>]

\* EncodeMetric::metric_type: Self::TYPE, and M::TYPE for a Family<S, M>
RECURSIVE metric_type(_)
metric_type(m) == IF m.kind = "Family" THEN metric_type(m.child) ELSE m.kind

\* The registry holds the metric itself, or a Box<dyn EncodeMetric> or
\* Box<dyn SendEncodeMetric> of it
NoBox == ""
Dyns == {"EncodeMetric", "SendEncodeMetric"}

\* metric_type of Box<dyn EncodeMetric> and of Box<dyn SendEncodeMetric>:
\* self.deref().metric_type()
box_metric_type(dyn, m) ==
    IF dyn = "EncodeMetric" THEN metric_type(m) ELSE metric_type(m)

\* metric.metric_type() on what the registry holds
registered_type(box, m) ==
    IF box = NoBox THEN metric_type(m) ELSE box_metric_type(box, m)

\* The register calls a program makes: any of these, in this order
Registrations ==
   << [name |-> "my_histogram_family", help |-> "My histogram family",
       unit |-> Some(Bytes), metric |-> NewFamily(NewHistogram)],
      [name |-> "my_counter_family", help |-> "My counter family", unit |-> None,
       metric |-> NewFamily(NewCounter)],
      [name |-> "my_gauge_family", help |-> "My gauge family",
       unit |-> Some(OtherUnit("widgets")), metric |-> NewFamily(NewGauge)],
      [name |-> "my_histogram", help |-> "My histogram", unit |-> None,
       metric |-> NewHistogram],
      [name |-> "my_counter", help |-> "My counter", unit |-> Some(Seconds),
       metric |-> NewCounter],
      [name |-> "my_counter", help |-> "This is my counter", unit |-> None,
       metric |-> NewCounter],
      [name |-> "my_gauge", help |-> "My gauge", unit |-> None,
       metric |-> NewGauge] >>

\* A family whose members are families, each made by the constructor with
\* one member of its own
NestedRegistration ==
    [name |-> "my_nested_family", help |-> "My nested family", unit |-> None,
     metric |-> NewFamily([kind |-> "Family", child |-> NewCounter,
                           members |-> << [labels |-> << <<"status", "200">> >>,
                                           m |-> NewCounter] >>])]

\* The label sets get_or_create is called with
LabelSets ==
    { <<>>,
      << <<"method", "GET">> >>,
      << <<"method", "GET">>, <<"status", "200">> >> }

GaugeVals == {3}
ObsVals == {1, 5}
IoErrors == {"BrokenPipe"}

\* ------------------------------------------------------------------ state
VARIABLES
    registry,   \* Registry: the descriptors, in registration order
    metrics,    \* the metric registered with each descriptor
    boxes,      \* how the registry holds each metric: "" for the metric itself,
                \* else the trait object of the Box that wraps it
    guards,     \* the families whose mapping the encoding thread holds a read guard on
    ins,        \* a thread in get_or_create with a label set the family lacks
    ops,        \* updates and insertions made so far
    pc,         \* where the encoding thread is
    ei,         \* encode: the registry entry of the current loop turn
    frames,     \* the EncodeMetric::encode calls in progress, outermost first
    hsnap,      \* Histogram::encode: (sum, count, buckets) as self.get() returned it
    hl,         \* Histogram::encode: the next line to write
    result,     \* what the last encode call returned
    out,        \* the sink: the chunks written by the current (or last) encode call
    calls,      \* the write_all calls made on the sink by that call
    raised,     \* the error the sink returned from a failing write_all, "" if none
    enum,       \* the last enumeration of a family: its members when the guard
                \* was taken, the members handed to a child encode, whether it ended
    passes,     \* encode calls started
    dirty,      \* a metric was updated or a label set inserted since the last call began
    prev,       \* the output of the call before, when it returned Ok
    handle      \* a metric's encode body using the staged encoder directly: the
                \* innermost stage value it can still use, and how far it went

vars == <<registry, metrics, boxes, guards, ins, ops, pc, ei, frames, hsnap, hl,
          result, out, calls, raised, enum, passes, dirty, prev, handle>>

NoResult == [done |-> FALSE, ok |-> FALSE, err |-> ""]
OkResult == [done |-> TRUE, ok |-> TRUE, err |-> ""]
ErrResult(e) == [done |-> TRUE, ok |-> FALSE, err |-> e]
NoSnap == [sum |-> 0, count |-> 0, buckets |-> <<>>]
NoIns == [waiting |-> FALSE, family |-> 0, labels |-> <<>>]
NoEnum == [family |-> <<>>, atLock |-> <<>>, emitted |-> <<>>, ended |-> FALSE]
NoHandle == [live |-> "none", enc |-> Encoder("", None, None), opened |-> FALSE,
             n |-> 0]

Init ==
    /\ registry = <<>>
    /\ metrics = <<>>
    /\ boxes = <<>>
    /\ guards = {}
    /\ ins = NoIns
    /\ ops = 0
    /\ pc = "idle"
    /\ ei = 0
    /\ frames = <<>>
    /\ hsnap = NoSnap
    /\ hl = 0
    /\ result = NoResult
    /\ out = <<>>
    /\ calls = 0
    /\ raised = ""
    /\ enum = NoEnum
    /\ passes = 0
    /\ dirty = FALSE
    /\ prev = [valid |-> FALSE, out |-> <<>>]
    /\ handle = NoHandle

\* ------------------------------------------------------------- navigation
RECURSIVE Child(_, _)
Child(m, q) == IF q = <<>> THEN m ELSE Child(m.members[Head(q)].m, Tail(q))

\* The metric at a path: <<i>> is entry i, <<i, j>> member j of the family there
MetricAt(p) == Child(metrics[Head(p)], Tail(p))

Top == frames[Len(frames)]
Pop == SubSeq(frames, 1, Len(frames) - 1)

\* The path of the metric whose encode is the innermost call in progress
Path == <<ei>> \o [k \in 1..(Len(frames) - 1) |-> frames[k].idx]

\* The metrics a program can reach: registered ones and family members
AllPaths ==
    {<<i>> : i \in 1..Len(metrics)} \cup
    UNION { IF metrics[i].kind = "Family"
            THEN {<<i, j>> : j \in 1..Len(metrics[i].members)} ELSE {}
            : i \in 1..Len(metrics) }

SetAt(p, m) ==
    IF Len(p) = 1 THEN [metrics EXCEPT ![p[1]] = m]
    ELSE [metrics EXCEPT ![p[1]].members[p[2]].m = m]

\* --------------------------------------------------------- registration
\* Registry::register / register_with_unit: the descriptor keeps the help
\* text with a period appended.  Registration needs the registry exclusively,
\* so it does not overlap an encode; the model registers before the first one.
register(reg, r) ==
    Append(reg, [name |-> r.name, help |-> r.help \o ".", unit |-> r.unit])

RegisterAs(k, box) ==
    /\ pc = "idle" /\ passes = 0 /\ ops = 0 /\ ~ins.waiting
    /\ \A i \in 1..Len(boxes) : boxes[i] = box
    /\ Len(registry) < MaxEntries
    /\ \A i \in 1..Len(registry) : registry[i].name # Registrations[k].name
    /\ registry # <<>> =>
         \E k0 \in 1..(k - 1) :
            registry[Len(registry)] = register(<<>>, Registrations[k0])[1]
    /\ registry' = register(registry, Registrations[k])
    /\ metrics' = Append(metrics, Registrations[k].metric)
    /\ boxes' = Append(boxes, box)
    /\ UNCHANGED <<handle, guards, ins, ops, pc, ei, frames, hsnap, hl, result, out,
                   calls, raised, enum, passes, dirty, prev>>

\* A Registry<M> whose M is a metric type
Register(k) == RegisterAs(k, NoBox)

\* A Registry<Box<dyn EncodeMetric>> or Registry<Box<dyn SendEncodeMetric>>
RegisterBoxed(k, dyn) == RegisterAs(k, dyn)

\* ------------------------------------------------------ the encoding thread
\* What the sink does during one step: it takes every write (budget -1), or
\* fails the write after `budget` more with the error err.
MaxStepWrites == 22
NoFaults == {[budget |-> -1, err |-> ""]}
Faults == NoFaults \cup [budget : 0..(MaxStepWrites - 1), err : IoErrors]

SinkFor(f) == Writer(out, calls, f.budget, f.err)

\* A metric's encode returned Ok(()) to its caller: the loop of encode goes
\* to the next entry, the loop of Family::encode to the next member.
Returned(fs) ==
    IF fs = <<>>
    THEN /\ pc' = "entry"
         /\ ei' = ei + 1
         /\ frames' = <<>>
    ELSE /\ pc' = "family"
         /\ ei' = ei
         /\ frames' = [fs EXCEPT ![Len(fs)].idx = @ + 1]

\* (mutant) the error of a failed write is dropped and the traversal goes on
FailedSwallowed(r) ==
    /\ Returned(Pop)
    /\ UNCHANGED <<guards, result>>

\* (mutant) the guards taken on the way down outlive the failed call
FailedKeepsGuards(r) ==
    /\ pc' = "idle"
    /\ ei' = ei
    /\ frames' = <<>>
    /\ guards' = guards
    /\ result' = ErrResult(r.err)

\* A write failed: every ? on the way up returns the error, the guards of
\* the Family::encode calls unwound are dropped, encode returns Err(e).
Failed(r) ==
    /\ pc' = "idle"
    /\ ei' = ei
    /\ frames' = <<>>
    /\ guards' = {}
    /\ result' = ErrResult(r.err)

\* (mutant) the position in the registry is kept from the call before
EncodeStartStale(n) ==
    /\ pc = "idle" /\ passes < n
    /\ pc' = "entry"
    /\ ei' = IF passes = 0 THEN 1 ELSE ei
    /\ out' = <<>>
    /\ calls' = 0
    /\ raised' = ""
    /\ enum' = NoEnum
    /\ result' = NoResult
    /\ passes' = passes + 1
    /\ prev' = IF result.done /\ result.ok /\ ~dirty
               THEN [valid |-> TRUE, out |-> out]
               ELSE [valid |-> FALSE, out |-> <<>>]
    /\ dirty' = FALSE
    /\ UNCHANGED <<registry, boxes, handle, metrics, guards, ins, ops, frames, hsnap, hl>>

\* encode is called with a fresh buffer
EncodeStart(n) ==
    /\ pc = "idle" /\ passes < n
    /\ pc' = "entry"
    /\ ei' = 1
    /\ out' = <<>>
    /\ calls' = 0
    /\ raised' = ""
    /\ enum' = NoEnum
    /\ result' = NoResult
    /\ passes' = passes + 1
    /\ prev' = IF result.done /\ result.ok /\ ~dirty
               THEN [valid |-> TRUE, out |-> out]
               ELSE [valid |-> FALSE, out |-> <<>>]
    /\ dirty' = FALSE
    /\ UNCHANGED <<registry, boxes, handle, metrics, guards, ins, ops, frames, hsnap, hl>>

\* encode: one turn of the loop up to the call of metric.encode(encoder)
EncodeEntry(F) ==
    /\ pc = "entry" /\ ei <= Len(registry)
    /\ \E f \in F :
         LET r == header(SinkFor(f), registry[ei],
                         registered_type(boxes[ei], metrics[ei]))
         IN /\ out' = r.w.written
            /\ calls' = r.w.calls
            /\ raised' = r.w.raised
            /\ IF r.ok
               THEN /\ pc' = IF boxes[ei] = NoBox THEN "metric" ELSE "box"
                    /\ frames' = <<[enc |-> Encoder(registry[ei].name,
                                                    registry[ei].unit, None),
                                    idx |-> 0]>>
                    /\ UNCHANGED <<ei, guards, result>>
               ELSE Failed(r)
    /\ UNCHANGED <<registry, boxes, handle, metrics, ins, ops, hsnap, hl, enum, passes, dirty, prev>>

\* (mutant) encode returns Ok(()) after the loop without the terminal line
EncodeEofMissing(F) ==
    /\ pc = "entry" /\ ei > Len(registry)
    /\ pc' = "idle"
    /\ result' = OkResult
    /\ UNCHANGED <<registry, boxes, handle, metrics, guards, ins, ops, ei, frames, hsnap, hl, out,
                   calls, raised, enum, passes, dirty, prev>>

\* encode: after the loop
EncodeEof(F) ==
    /\ pc = "entry" /\ ei > Len(registry)
    /\ \E f \in F :
         LET r == write_all(SinkFor(f), "# EOF\n")
         IN /\ out' = r.w.written
            /\ calls' = r.w.calls
            /\ raised' = r.w.raised
            /\ IF r.ok
               THEN /\ pc' = "idle"
                    /\ result' = OkResult
                    /\ UNCHANGED <<ei, frames, guards>>
               ELSE Failed(r)
    /\ UNCHANGED <<registry, boxes, handle, metrics, ins, ops, hsnap, hl, enum, passes, dirty, prev>>

\* (mutant) the wrapper returns Ok(()) without encoding what it wraps
BoxEncodeNothing ==
    /\ pc = "box"
    /\ Returned(Pop)
    /\ UNCHANGED <<registry, boxes, handle, metrics, guards, ins, ops, hsnap, hl, result,
                   out, calls, raised, enum, passes, dirty, prev>>

\* encode of Box<dyn EncodeMetric> and of Box<dyn SendEncodeMetric>:
\* self.deref().encode(encoder), the encoder handed on as it is
BoxEncode ==
    /\ pc = "box"
    /\ pc' = "metric"
    /\ UNCHANGED <<registry, boxes, handle, metrics, guards, ins, ops, ei, frames, hsnap,
                   hl, result, out, calls, raised, enum, passes, dirty, prev>>

\* Counter::encode
CounterEncode(F) ==
    /\ pc = "metric" /\ MetricAt(Path).kind = "Counter"
    /\ \E f \in F :
         LET r == counter_encode(Top.enc, SinkFor(f), MetricAt(Path).value)
         IN /\ out' = r.w.written
            /\ calls' = r.w.calls
            /\ raised' = r.w.raised
            /\ IF r.ok THEN Returned(Pop) /\ UNCHANGED <<guards, result>>
               ELSE Failed(r)
    /\ UNCHANGED <<registry, boxes, handle, metrics, ins, ops, hsnap, hl, enum, passes, dirty, prev>>

\* Gauge::encode
GaugeEncode(F) ==
    /\ pc = "metric" /\ MetricAt(Path).kind = "Gauge"
    /\ \E f \in F :
         LET r == gauge_encode(Top.enc, SinkFor(f), MetricAt(Path).value)
         IN /\ out' = r.w.written
            /\ calls' = r.w.calls
            /\ raised' = r.w.raised
            /\ IF r.ok THEN Returned(Pop) /\ UNCHANGED <<guards, result>>
               ELSE Failed(r)
    /\ UNCHANGED <<registry, boxes, handle, metrics, ins, ops, hsnap, hl, enum, passes, dirty, prev>>

\* Histogram::encode: let (sum, count, buckets) = self.get()
HistogramGet ==
    /\ pc = "metric" /\ MetricAt(Path).kind = "Histogram"
    /\ hsnap' = [sum |-> MetricAt(Path).sum, count |-> MetricAt(Path).count,
                 buckets |-> MetricAt(Path).buckets]
    /\ hl' = 1
    /\ pc' = "hist"
    /\ UNCHANGED <<registry, boxes, handle, metrics, guards, ins, ops, ei, frames, result, out,
                   calls, raised, enum, passes, dirty, prev>>

\* (mutant) every line reads the histogram anew
HistogramLineLive(F) ==
    /\ pc = "hist"
    /\ \E f \in F :
         LET now == [sum |-> MetricAt(Path).sum, count |-> MetricAt(Path).count,
                     buckets |-> MetricAt(Path).buckets]
             r == histogram_line(Top.enc, SinkFor(f), now, hl)
         IN /\ out' = r.w.written
            /\ calls' = r.w.calls
            /\ raised' = r.w.raised
            /\ IF ~r.ok THEN Failed(r) /\ hl' = 0 /\ hsnap' = NoSnap
               ELSE IF hl >= Len(hsnap.buckets) + 2
               THEN Returned(Pop) /\ hl' = 0 /\ hsnap' = NoSnap
                    /\ UNCHANGED <<guards, result>>
               ELSE hl' = hl + 1 /\ UNCHANGED <<pc, ei, frames, guards, result, hsnap>>
    /\ UNCHANGED <<registry, boxes, handle, metrics, ins, ops, enum, passes, dirty, prev>>

\* Histogram::encode: the _sum line, the _count line, one turn of the bucket loop
HistogramLine(F) ==
    /\ pc = "hist"
    /\ \E f \in F :
         LET r == histogram_line(Top.enc, SinkFor(f), hsnap, hl)
         IN /\ out' = r.w.written
            /\ calls' = r.w.calls
            /\ raised' = r.w.raised
            /\ IF ~r.ok THEN Failed(r) /\ hl' = 0 /\ hsnap' = NoSnap
               ELSE IF hl >= Len(hsnap.buckets) + 2
               THEN Returned(Pop) /\ hl' = 0 /\ hsnap' = NoSnap
                    /\ UNCHANGED <<guards, result>>
               ELSE hl' = hl + 1 /\ UNCHANGED <<pc, ei, frames, guards, result, hsnap>>
    /\ UNCHANGED <<registry, boxes, handle, metrics, ins, ops, enum, passes, dirty, prev>>

\* (mutant) the mapping is enumerated without a guard on it
FamilyReadNoGuard ==
    /\ pc = "metric" /\ MetricAt(Path).kind = "Family"
    /\ frames' = [frames EXCEPT ![Len(frames)].idx = 1]
    /\ pc' = "family"
    /\ enum' = [family |-> Path, atLock |-> MetricAt(Path).members,
                emitted |-> <<>>, ended |-> FALSE]
    /\ UNCHANGED <<registry, boxes, handle, metrics, guards, ins, ops, ei, hsnap, hl, result, out,
                   calls, raised, passes, dirty, prev>>

\* (mutant) one lock for all families: the guard shuts every mapping
FamilyReadAll ==
    /\ pc = "metric" /\ MetricAt(Path).kind = "Family"
    /\ guards' = guards \cup {Path} \cup
                 {<<g>> : g \in {i \in 1..Len(metrics) : metrics[i].kind = "Family"}}
    /\ frames' = [frames EXCEPT ![Len(frames)].idx = 1]
    /\ pc' = "family"
    /\ enum' = [family |-> Path, atLock |-> MetricAt(Path).members,
                emitted |-> <<>>, ended |-> FALSE]
    /\ UNCHANGED <<registry, boxes, handle, metrics, ins, ops, ei, hsnap, hl, result, out, calls,
                   raised, passes, dirty, prev>>

\* Family::encode: let guard = self.read()
FamilyRead ==
    /\ pc = "metric" /\ MetricAt(Path).kind = "Family"
    /\ guards' = guards \cup {Path}
    /\ frames' = [frames EXCEPT ![Len(frames)].idx = 1]
    /\ pc' = "family"
    /\ enum' = [family |-> Path, atLock |-> MetricAt(Path).members,
                emitted |-> <<>>, ended |-> FALSE]
    /\ UNCHANGED <<registry, boxes, handle, metrics, ins, ops, ei, hsnap, hl, result, out, calls,
                   raised, passes, dirty, prev>>

\* The builds of the program: with and without debug_assertions
Builds == BOOLEAN

\* A failed assertion panics: the thread unwinds, dropping the guards it
\* holds, and encode never returns
Panicked ==
    /\ pc' = "panicked"
    /\ frames' = <<>>
    /\ guards' = {}
    /\ UNCHANGED <<ei, enum>>

\* Family::encode: the head of the loop over guard.iter(); after the last
\* member the guard is dropped and Ok(()) returned
FamilyNext ==
    /\ pc = "family"
    /\ IF Top.idx <= Len(MetricAt(Path).members)
       THEN \E debug_assertions \in Builds :
              IF ~debug_assert_labels_is_none(Top.enc, debug_assertions)
              THEN Panicked
              ELSE /\ frames' = Append(frames,
                                  [enc |-> with_label_set(Top.enc,
                                               MetricAt(Path).members[Top.idx].labels),
                                   idx |-> 0])
                   /\ pc' = "metric"
                   /\ enum' = [enum EXCEPT !.emitted =
                                     Append(@, MetricAt(Path).members[Top.idx])]
                   /\ UNCHANGED <<ei, guards>>
       ELSE /\ guards' = guards \ {Path}
            /\ enum' = [enum EXCEPT !.ended = TRUE]
            /\ Returned(Pop)
    /\ UNCHANGED <<registry, boxes, handle, metrics, ins, ops, hsnap, hl, result, out, calls,
                   raised, passes, dirty, prev>>

\* ------------------------------------------------------- the other threads
\* The other threads act before the first encode call and while a call
\* runs.  An update made between two calls reads, to the encoder, as one made
\* right after the second call began, and nothing reads an update made after
\* the last call returned.
Acting == passes = 0 \/ pc # "idle"

\* Counter::inc
Inc(p) ==
    /\ ops < MaxOps /\ Acting
    /\ MetricAt(p).kind = "Counter"
    /\ metrics' = SetAt(p, [MetricAt(p) EXCEPT !.value = @ + 1])
    /\ ops' = ops + 1
    /\ dirty' = TRUE
    /\ UNCHANGED <<registry, boxes, handle, guards, ins, pc, ei, frames, hsnap, hl, result, out,
                   calls, raised, enum, passes, prev>>

\* Gauge::set
GaugeSet(p, v) ==
    /\ ops < MaxOps /\ Acting
    /\ MetricAt(p).kind = "Gauge"
    /\ metrics' = SetAt(p, [MetricAt(p) EXCEPT !.value = v])
    /\ ops' = ops + 1
    /\ dirty' = TRUE
    /\ UNCHANGED <<registry, boxes, handle, guards, ins, pc, ei, frames, hsnap, hl, result, out,
                   calls, raised, enum, passes, prev>>

\* Histogram::observe: sum, count and the count of every bucket the value
\* falls under
observe(h, v) ==
    [h EXCEPT !.sum = @ + v, !.count = @ + 1,
              !.buckets = [b \in 1..Len(@) |->
                             IF @[b][1] >= v THEN <<@[b][1], @[b][2] + 1>> ELSE @[b]]]

Observe(p, v) ==
    /\ ops < MaxOps /\ Acting
    /\ MetricAt(p).kind = "Histogram"
    /\ metrics' = SetAt(p, observe(MetricAt(p), v))
    /\ ops' = ops + 1
    /\ dirty' = TRUE
    /\ UNCHANGED <<registry, boxes, handle, guards, ins, pc, ei, frames, hsnap, hl, result, out,
                   calls, raised, enum, passes, prev>>

\* Family::get_or_create with a label set the family lacks: the lookup under
\* the read lock misses, and the thread goes for the write lock
InsertBegin(i, ls) ==
    /\ ops < MaxOps /\ Acting /\ ~ins.waiting
    /\ i \in 1..Len(metrics) /\ metrics[i].kind = "Family"
    /\ Len(metrics[i].members) < MaxMembers
    /\ \A j \in 1..Len(metrics[i].members) : metrics[i].members[j].labels # ls
    /\ ins' = [waiting |-> TRUE, family |-> i, labels |-> ls]
    /\ ops' = ops + 1
    /\ UNCHANGED <<registry, boxes, handle, metrics, guards, pc, ei, frames, hsnap, hl, result,
                   out, calls, raised, enum, passes, dirty, prev>>

\* The orders a hash map may iterate its entries in
Orders(S) ==
    {s \in [1..Cardinality(S) -> S] : \A x \in S : \E k \in DOMAIN s : s[k] = x}

\* The write lock is granted once no read guard is out; the new member is
\* inserted and the lock released
InsertCommit ==
    /\ ins.waiting
    /\ <<ins.family>> \notin guards
    /\ LET old == metrics[ins.family].members
           new == [labels |-> ins.labels, m |-> metrics[ins.family].child]
       IN \E s \in Orders({old[j] : j \in 1..Len(old)} \cup {new}) :
            metrics' = [metrics EXCEPT ![ins.family].members = s]
    /\ ins' = NoIns
    /\ dirty' = TRUE
    /\ UNCHANGED <<registry, boxes, handle, guards, ops, pc, ei, frames, hsnap, hl, result, out,
                   calls, raised, enum, passes, prev>>

Updates ==
    \/ \E p \in AllPaths : Inc(p)
    \/ \E p \in AllPaths, v \in GaugeVals : GaugeSet(p, v)
    \/ \E p \in AllPaths, v \in ObsVals : Observe(p, v)
    \/ \E i \in 1..Len(metrics), ls \in LabelSets : InsertBegin(i, ls)
    \/ InsertCommit

\* One encode call into a sink that may fail, beside the other threads
Next ==
    \/ \E k \in DOMAIN Registrations : Register(k)
    \/ EncodeStart(1)
    \/ EncodeEntry(Faults)
    \/ EncodeEof(Faults)
    \/ CounterEncode(Faults)
    \/ GaugeEncode(Faults)
    \/ HistogramGet
    \/ HistogramLine(Faults)
    \/ FamilyRead
    \/ FamilyNext
    \/ Updates

Spec == Init /\ [][Next]_vars

\* What the sink does with the first write of a step: it refuses it, or it
\* takes it (and may refuse a later one)
Refusing == {f \in Faults : f.budget = 0}
Accepting == Faults \ Refusing

\* The steps of the encoding thread that write to the sink
SinkStep(F) ==
    \/ EncodeEntry(F)
    \/ EncodeEof(F)
    \/ CounterEncode(F)
    \/ GaugeEncode(F)
    \/ HistogramLine(F)

\* The steps of the thread that runs encode
EncoderStep ==
    \/ EncodeStart(1)
    \/ HistogramGet
    \/ FamilyRead
    \/ FamilyNext
    \/ SinkStep(Refusing)
    \/ SinkStep(Accepting)

\* A registry of LiveEntries families
LiveEntries == 1
RegisterFamily(k) ==
    /\ Len(registry) < LiveEntries
    /\ Registrations[k].metric.kind = "Family"
    /\ Register(k)

NextLive ==
    \/ \E k \in DOMAIN Registrations : RegisterFamily(k)
    \/ EncoderStep
    \/ Updates

\* One encode call on it, each thread running on: the encoding thread takes
\* its next step as long as it has one, and a thread waiting for the write
\* lock of a mapping gets it once no read guard on it is held any more
SpecLive ==
    Init /\ [][NextLive]_vars /\ WF_vars(EncoderStep) /\ WF_vars(InsertCommit)

\* MaxPasses encode calls, one after the other, into sinks that take every
\* write, beside the other threads
NextAgain ==
    \/ \E k \in DOMAIN Registrations : Register(k)
    \/ EncodeStart(MaxPasses)
    \/ EncodeEntry(NoFaults)
    \/ EncodeEof(NoFaults)
    \/ CounterEncode(NoFaults)
    \/ GaugeEncode(NoFaults)
    \/ HistogramGet
    \/ HistogramLine(NoFaults)
    \/ FamilyRead
    \/ FamilyNext
    \/ Updates

SpecAgain == Init /\ [][NextAgain]_vars

\* One encode call on a registry of metrics or of boxed metrics, into a sink
\* that takes every write, beside the other threads
NextDyn ==
    \/ \E k \in DOMAIN Registrations : Register(k)
    \/ \E k \in DOMAIN Registrations, dyn \in Dyns : RegisterBoxed(k, dyn)
    \/ EncodeStart(1)
    \/ EncodeEntry(NoFaults)
    \/ EncodeEof(NoFaults)
    \/ BoxEncode
    \/ CounterEncode(NoFaults)
    \/ GaugeEncode(NoFaults)
    \/ HistogramGet
    \/ HistogramLine(NoFaults)
    \/ FamilyRead
    \/ FamilyNext
    \/ Updates

SpecDyn == Init /\ [][NextDyn]_vars

\* A registry holding a family of families
RegisterNested ==
    /\ pc = "idle" /\ passes = 0 /\ ops = 0 /\ ~ins.waiting
    /\ registry = <<>>
    /\ registry' = register(registry, NestedRegistration)
    /\ metrics' = Append(metrics, NestedRegistration.metric)
    /\ boxes' = Append(boxes, NoBox)
    /\ UNCHANGED <<handle, guards, ins, ops, pc, ei, frames, hsnap, hl, result, out,
                   calls, raised, enum, passes, dirty, prev>>

\* One encode call on it, into a sink that may fail, beside the insertions
NextNested ==
    \/ RegisterNested
    \/ EncodeStart(1)
    \/ EncodeEntry(Faults)
    \/ EncodeEof(Faults)
    \/ CounterEncode(Faults)
    \/ FamilyRead
    \/ FamilyNext
    \/ \E i \in 1..Len(metrics), ls \in LabelSets : InsertBegin(i, ls)
    \/ InsertCommit

SpecNested == Init /\ [][NextNested]_vars

\* ------------------------------------------- the staged encoder, on its own
\* The body of an EncodeMetric::encode in this module, given an Encoder, makes
\* any calls the types and the borrow rules let it make.  Every stage method
\* takes &mut self: a stage value stays usable after it yielded the next one,
\* and a use of it ends the borrow of the values derived from it.  A stage
\* value may be dropped unused (#[must_use] is a warning).
MaxCalls == 4
StageSuffixes == {"total", "bucket"}
StageEncoders ==
    {Encoder("my_metric", u, l) :
        u \in {None, Some(Seconds)},
        l \in {None} \cup {Some(ls) : ls \in LabelSets}}

StageUnchanged ==
    UNCHANGED <<registry, metrics, boxes, guards, ins, ops, pc, ei, frames, hsnap,
                hl, result, enum, passes, dirty, prev>>

\* encode(&self, mut encoder: Encoder) is entered
StageBegin(enc) ==
    /\ handle.live = "none" /\ pc = "idle" /\ registry = <<>> /\ passes = 0
    /\ handle' = [live |-> "Encoder", enc |-> enc, opened |-> FALSE, n |-> 0]
    /\ UNCHANGED <<out, calls, raised>>
    /\ StageUnchanged

Sink == Writer(out, calls, -1, "")

\* encoder.encode_suffix(suffix)?
CallEncodeSuffix(suffix) ==
    /\ handle.live \in {"Encoder", "BucketEncoder", "ValueEncoder"}
    /\ handle.n < MaxCalls
    /\ LET r == encode_suffix(handle.enc, Sink, suffix)
       IN /\ out' = r.w.written /\ calls' = r.w.calls /\ raised' = r.w.raised
          /\ handle' = [handle EXCEPT !.live = "BucketEncoder",
                                      !.opened = r.opened_curly_brackets,
                                      !.n = @ + 1]
    /\ StageUnchanged

\* encoder.no_suffix()?
CallNoSuffix ==
    /\ handle.live \in {"Encoder", "BucketEncoder", "ValueEncoder"}
    /\ handle.n < MaxCalls
    /\ LET r == no_suffix(handle.enc, Sink)
       IN /\ out' = r.w.written /\ calls' = r.w.calls /\ raised' = r.w.raised
          /\ handle' = [handle EXCEPT !.live = "BucketEncoder",
                                      !.opened = r.opened_curly_brackets,
                                      !.n = @ + 1]
    /\ StageUnchanged

\* bucket_encoder.encode_bucket(upper_bound)?
CallEncodeBucket(upper_bound) ==
    /\ handle.live \in {"BucketEncoder", "ValueEncoder"}
    /\ handle.n < MaxCalls
    /\ LET r == encode_bucket(OkBucketEncoder(Sink, handle.opened), upper_bound)
       IN /\ out' = r.w.written /\ calls' = r.w.calls /\ raised' = r.w.raised
          /\ handle' = [handle EXCEPT !.live = "ValueEncoder", !.n = @ + 1]
    /\ StageUnchanged

\* bucket_encoder.no_bucket()?
CallNoBucket ==
    /\ handle.live \in {"BucketEncoder", "ValueEncoder"}
    /\ handle.n < MaxCalls
    /\ LET r == no_bucket(OkBucketEncoder(Sink, handle.opened))
       IN /\ out' = r.w.written /\ calls' = r.w.calls /\ raised' = r.w.raised
          /\ handle' = [handle EXCEPT !.live = "ValueEncoder", !.n = @ + 1]
    /\ StageUnchanged

\* value_encoder.encode_value(v)?
CallEncodeValue(v) ==
    /\ handle.live = "ValueEncoder"
    /\ handle.n < MaxCalls
    /\ LET r == encode_value(Sink, U64(v))
       IN /\ out' = r.w.written /\ calls' = r.w.calls /\ raised' = r.w.raised
          /\ handle' = [handle EXCEPT !.n = @ + 1]
    /\ StageUnchanged

\* Ok(()) is returned, whatever stage values are left are dropped
StageReturn ==
    /\ handle.live \in {"Encoder", "BucketEncoder", "ValueEncoder"}
    /\ handle' = [handle EXCEPT !.live = "returned"]
    /\ UNCHANGED <<out, calls, raised>>
    /\ StageUnchanged

NextStages ==
    \/ \E enc \in StageEncoders : StageBegin(enc)
    \/ \E suffix \in StageSuffixes : CallEncodeSuffix(suffix)
    \/ CallNoSuffix
    \/ \E ub \in {2, F64_MAX} : CallEncodeBucket(ub)
    \/ CallNoBucket
    \/ \E v \in {0, 7} : CallEncodeValue(v)
    \/ StageReturn

SpecStages == Init /\ [][NextStages]_vars

\* ------------------------------------------------------ reading the output
\* The bytes of a sequence of chunks
RECURSIVE Concat(_)
Concat(cs) == IF cs = <<>> THEN "" ELSE Head(cs) \o Concat(Tail(cs))

\* encode returned Ok(())
EncodedOk == pc = "idle" /\ result.done /\ result.ok

\* encode returned Err
EncodedErr == pc = "idle" /\ result.done /\ ~result.ok

IsEol(c) == c = "\n" \/ c = "# EOF\n"

\* The lines of the output, each the chunks it was written in; the last one
\* may be unfinished
RECURSIVE LinesOf(_)
LinesOf(cs) ==
    IF cs = <<>> THEN <<>>
    ELSE LET k == IF \E i \in 1..Len(cs) : IsEol(cs[i])
                  THEN CHOOSE i \in 1..Len(cs) :
                          IsEol(cs[i]) /\ \A j \in 1..(i - 1) : ~IsEol(cs[j])
                  ELSE Len(cs)
         IN <<SubSeq(cs, 1, k)>> \o LinesOf(SubSeq(cs, k + 1, Len(cs)))

IsHelp(l) == l[1] = "# HELP "
IsType(l) == l[1] = "# TYPE "
IsUnit(l) == l[1] = "# UNIT "
IsEof(l) == l = <<"# EOF\n">>
IsSample(l) == ~IsHelp(l) /\ ~IsType(l) /\ ~IsUnit(l) /\ ~IsEof(l)

\* Decimal digits of a small count, written out
Dec(n) == CASE n = 0 -> "0" [] n = 1 -> "1" [] n = 2 -> "2" [] n = 3 -> "3"
            [] n = 4 -> "4" [] n = 5 -> "5" [] n = 6 -> "6" [] OTHER -> "?"

\* The lines of entry i in the lines L of a finished document: from the i-th
\* HELP line up to the line before the next HELP line (or before the last line)
HelpLines(L) == {k \in 1..Len(L) : IsHelp(L[k])}
EntryFirst(L, i) ==
    CHOOSE k \in HelpLines(L) : Cardinality({j \in HelpLines(L) : j < k}) = i - 1
EntryLast(L, i) ==
    IF i < Cardinality(HelpLines(L)) THEN EntryFirst(L, i + 1) - 1 ELSE Len(L) - 1

Suffixes == {"total", "sum", "count", "bucket"}

\* ----------------------------------------------------------------- claims
\* C1: a registry holding exactly one Counter registered with name n, help h
\* and no unit, whose value is v, is encoded as exactly the bytes
\* "# HELP n h.\n# TYPE n counter\nn_total v\n# EOF\n".  v is the counter's
\* value throughout the call (no update since the call began).
C1_SingleCounterBytes ==
    (EncodedOk /\ ~dirty /\ Len(registry) = 1) =>
      \A k \in DOMAIN Registrations :
        LET t == Registrations[k] IN
        (/\ t.metric.kind = "Counter" /\ ~t.unit.some
         /\ registry[1].name = t.name /\ ~registry[1].unit.some
         /\ metrics[1].kind = "Counter")
        => Concat(out) =
             "# HELP " \o t.name \o " " \o t.help \o ".\n" \o
             "# TYPE " \o t.name \o " counter\n" \o
             t.name \o "_total " \o Dec(metrics[1].value) \o "\n" \o
             "# EOF\n"

\* The documented scenario: my_counter, "This is my counter", one increment
C1_Witness ==
    /\ EncodedOk /\ ~dirty /\ Len(registry) = 1
    /\ metrics[1].kind = "Counter" /\ metrics[1].value = 1
    /\ Concat(out) = "# HELP my_counter This is my counter.\n# TYPE my_counter counter\nmy_counter_total 1\n# EOF\n"

\* C2: in every successful encode the entries appear in registration order;
\* each entry's HELP line, then its TYPE line, come before its sample lines;
\* a UNIT line follows the TYPE line if and only if the entry has a unit; and
\* all lines of an entry come before the HELP line of the next entry.
C2_HeaderOrder ==
    EncodedOk =>
      LET L == LinesOf(out) IN
      /\ Cardinality(HelpLines(L)) = Len(registry)
      /\ registry # <<>> => IsHelp(L[1])
      /\ IsEof(L[Len(L)])
      /\ \A i \in 1..Len(registry) :
           LET a == EntryFirst(L, i)
               z == EntryLast(L, i)
               s == IF registry[i].unit.some THEN a + 3 ELSE a + 2
           IN /\ L[a][2] = registry[i].name
              /\ a + 1 <= z /\ IsType(L[a + 1]) /\ L[a + 1][2] = registry[i].name
              /\ registry[i].unit.some <=>
                   (a + 2 <= z /\ IsUnit(L[a + 2]) /\ L[a + 2][2] = registry[i].name)
              /\ \A k \in s..z : IsSample(L[k]) /\ L[k][1] = registry[i].name

\* Two entries, the first with a unit and the second without, each with samples
C2_Witness ==
    /\ EncodedOk /\ Len(registry) = 2
    /\ registry[1].unit.some /\ ~registry[2].unit.some
    /\ LET L == LinesOf(out) IN
       /\ Cardinality(HelpLines(L)) = 2
       /\ EntryLast(L, 1) >= EntryFirst(L, 1) + 3
       /\ EntryLast(L, 2) >= EntryFirst(L, 2) + 2

\* C3: every encode that returns Ok writes "# EOF\n" exactly once, as the
\* last bytes, after the lines of all entries; for an empty registry the
\* output is exactly "# EOF\n".
C3_EofLast ==
    EncodedOk =>
      /\ out # <<>> /\ out[Len(out)] = "# EOF\n"
      /\ Cardinality({k \in 1..Len(out) : out[k] = "# EOF\n"}) = 1
      /\ Cardinality(HelpLines(LinesOf(out))) = Len(registry)
      /\ registry = <<>> => Concat(out) = "# EOF\n"

\* Two entries encoded, then the terminal line
C3_Witness ==
    /\ EncodedOk /\ Len(registry) = 2
    /\ Len(out) > 1 /\ out[Len(out)] = "# EOF\n"
    /\ Cardinality(HelpLines(LinesOf(out))) = 2

\* C10: an entry with unit u has its name written as name_u on its HELP, TYPE
\* and UNIT lines and at the start of every sample line, before any suffix; an
\* entry without a unit has no _unit part anywhere.
C10_UnitInName ==
    EncodedOk =>
      LET L == LinesOf(out) IN
      \A i \in 1..Len(registry) :
        LET a == EntryFirst(L, i)
            z == EntryLast(L, i)
            n == registry[i].name
        IN IF registry[i].unit.some
           THEN LET u == UnitToken(registry[i].unit.v) IN
                /\ SubSeq(L[a], 1, 5) = <<"# HELP ", n, "_", u, " ">>
                /\ SubSeq(L[a + 1], 1, 5) = <<"# TYPE ", n, "_", u, " ">>
                /\ L[a + 2] = <<"# UNIT ", n, "_", u, " ", u, "\n">>
                /\ \A k \in (a + 3)..z :
                     /\ SubSeq(L[k], 1, 3) = <<n, "_", u>>
                     /\ L[k][4] \in {"_", "{", " "}
                     /\ L[k][4] = "_" => L[k][5] \in Suffixes
           ELSE /\ SubSeq(L[a], 1, 3) = <<"# HELP ", n, " ">>
                /\ SubSeq(L[a + 1], 1, 3) = <<"# TYPE ", n, " ">>
                /\ \A k \in (a + 2)..z :
                     /\ ~IsUnit(L[k])
                     /\ L[k][1] = n
                     /\ L[k][2] \in {"_", "{", " "}
                     /\ L[k][2] = "_" => L[k][3] \in Suffixes

\* The documented scenario: my_counter with unit seconds, never incremented
C10_Witness ==
    /\ EncodedOk
    /\ Concat(out) = "# HELP my_counter_seconds My counter.\n# TYPE my_counter_seconds counter\n# UNIT my_counter_seconds seconds\nmy_counter_seconds_total 0\n# EOF\n"

\* C4: when a write to the sink fails, encode returns that error, makes no
\* further write_all call (no later sample, entry or terminal line), and the
\* bytes of the calls that succeeded stay written.
C4_ErrorAborts ==
    /\ raised # "" =>
         /\ EncodedErr /\ result.err = raised
         /\ calls = Len(out) + 1
         /\ frames = <<>>
         /\ \A k \in 1..Len(out) : out[k] # "# EOF\n"
    /\ raised = "" => calls = Len(out) /\ ~EncodedErr

\* A write fails inside the bucket loop of a histogram that is a family
\* member, with another entry still to come
C4_Witness ==
    /\ EncodedErr /\ raised # ""
    /\ Len(registry) = 2 /\ ei = 1
    /\ enum.family = <<1>> /\ enum.emitted # <<>> /\ ~enum.ended
    /\ \E k \in 1..Len(out) : out[k] = "bucket" /\ \A j \in k..Len(out) : ~IsEol(out[j])

\* The sample lines of entry i, in the lines L of a finished document
SamplesOf(L, i) ==
    SubSeq(L, EntryFirst(L, i) + (IF registry[i].unit.some THEN 3 ELSE 2),
           EntryLast(L, i))

\* The suffix of a sample line of entry i ("" when it has none)
SuffixOf(l, i) ==
    LET q == IF registry[i].unit.some THEN 4 ELSE 2
    IN IF l[q] = "_" THEN l[q + 1] ELSE ""

\* The le label of a sample line
LeOf(l) ==
    IF \E k \in 1..Len(l) : l[k] = "le=\""
    THEN Some(l[(CHOOSE k \in 1..Len(l) : l[k] = "le=\"") + 1])
    ELSE None

\* The value of a finished sample line
ValueOf(l) == l[Len(l) - 1]

\* The N + 2 lines g of one histogram h of entry i
IsHistogramGroup(g, h, i, exact) ==
    LET N == Len(h.buckets) IN
    /\ Len(g) = N + 2
    /\ SuffixOf(g[1], i) = "sum" /\ LeOf(g[1]) = None
    /\ SuffixOf(g[2], i) = "count" /\ LeOf(g[2]) = None
    /\ exact => ValueOf(g[1]) = Dtoa(h.sum) /\ ValueOf(g[2]) = Itoa(h.count)
    /\ \A b \in 1..N :
         /\ SuffixOf(g[2 + b], i) = "bucket"
         /\ LeOf(g[2 + b]) =
              Some(IF b = N THEN "+Inf" ELSE Dtoa(h.buckets[b][1]))
         /\ LeOf(g[2 + b]) # Some("1.7976931348623157e308")
         /\ exact => ValueOf(g[2 + b]) = Itoa(h.buckets[b][2])

\* C5: a Histogram with N stored buckets emits exactly N + 2 sample lines:
\* _sum, _count, then N _bucket lines in stored order, each with an le label
\* and (no update since the call began) that bucket's count; the le of the
\* last bucket line is +Inf, never the raw bound.  Also when never observed.
C5_HistogramLines ==
    EncodedOk =>
      LET L == LinesOf(out) IN
      \A i \in 1..Len(registry) :
        LET S == SamplesOf(L, i) IN
        /\ metrics[i].kind = "Histogram" =>
             IsHistogramGroup(S, metrics[i], i, ~dirty)
        /\ (metrics[i].kind = "Family" /\ metrics[i].child.kind = "Histogram") =>
             LET N == Len(metrics[i].child.buckets) IN
             /\ Len(S) % (N + 2) = 0
             /\ ~dirty => Len(S) = (N + 2) * Len(metrics[i].members)
             /\ \A m \in 1..(Len(S) \div (N + 2)) :
                  IsHistogramGroup(SubSeq(S, (m - 1) * (N + 2) + 1, m * (N + 2)),
                                   IF ~dirty THEN metrics[i].members[m].m
                                   ELSE metrics[i].child,
                                   i, ~dirty)

\* A histogram observed once (0.5) and encoded
C5_Witness ==
    /\ EncodedOk /\ ~dirty /\ Len(registry) = 1
    /\ metrics[1].kind = "Histogram" /\ metrics[1].count = 1
    /\ Len(SamplesOf(LinesOf(out), 1)) = Len(metrics[1].buckets) + 2
    /\ \E k \in 1..Len(out) : out[k] = "+Inf"
    /\ \E k \in 1..Len(out) : out[k] = "sum" /\ out[k + 2] = "0.5"

\* The label block the grammar gives a label set and an optional le bound:
\* nothing when there is no label at all, else the labels joined by single
\* commas inside one pair of braces, le last
RECURSIVE JoinLabels(_)
JoinLabels(pairs) ==
    IF pairs = <<>> THEN ""
    ELSE Head(pairs)[1] \o "=\"" \o Head(pairs)[2] \o "\"" \o
         (IF Tail(pairs) = <<>> THEN "" ELSE "," \o JoinLabels(Tail(pairs)))

GrammarLabels(ls, le) ==
    LET pairs == ls \o (IF le.some THEN << <<"le", le.v>> >> ELSE <<>>)
    IN IF pairs = <<>> THEN "" ELSE "{" \o JoinLabels(pairs) \o "}"

\* The le values a bucket line can carry
LeTokens == {"+Inf"} \cup {Dtoa(NewHistogram.buckets[b][1]) : b \in 1..NumBuckets}

\* A sample line of entry i, as the grammar has it, for some label set and
\* some le bound or none
MatchesGrammar(l, i) ==
    LET n == registry[i].name \o
             (IF registry[i].unit.some
              THEN "_" \o UnitToken(registry[i].unit.v) ELSE "") \o
             (IF SuffixOf(l, i) # "" THEN "_" \o SuffixOf(l, i) ELSE "")
    IN \E ls \in LabelSets, le \in {None} \cup {Some(t) : t \in LeTokens} :
         Concat(l) = n \o GrammarLabels(ls, le) \o " " \o ValueOf(l) \o "\n"

\* C6: every sample line written matches
\* <name>[_<unit>][_suffix][{label="value",...[,le="<bound>"]}] <value>\n:
\* braces only around at least one label, labels separated by a single comma
\* and nothing else, le last, one closing brace.
C6_SampleGrammar ==
    EncodedOk =>
      LET L == LinesOf(out) IN
      \A i \in 1..Len(registry) :
        \A k \in 1..Len(SamplesOf(L, i)) : MatchesGrammar(SamplesOf(L, i)[k], i)

\* An enumeration of a family is in progress
Enumerating == enum.family # <<>> /\ ~enum.ended /\ pc # "idle"

LabelsOf(members) == [j \in 1..Len(members) |-> members[j].labels]

\* C7: while Family::encode enumerates a family, no insertion into it takes
\* effect (the inserter waits for the guard to be released), and the members
\* handed to a child encode are the mapping's content when the guard was
\* taken, each once, all of them when the enumeration ends.
C7_EnumerationIsSnapshot ==
    /\ Enumerating =>
         /\ LabelsOf(MetricAt(enum.family).members) = LabelsOf(enum.atLock)
         /\ (ins.waiting /\ <<ins.family>> = enum.family) => ~ENABLED InsertCommit
    /\ enum.family # <<>> =>
         /\ Len(enum.emitted) <= Len(enum.atLock)
         /\ LabelsOf(enum.emitted) =
              SubSeq(LabelsOf(enum.atLock), 1, Len(enum.emitted))
         /\ enum.ended => Len(enum.emitted) = Len(enum.atLock)

\* A thread waits to insert into the family being enumerated, one member
\* already handed to its encode
C7_Witness ==
    /\ Enumerating /\ enum.family \in guards
    /\ Len(enum.emitted) >= 1
    /\ ins.waiting /\ <<ins.family>> = enum.family

\* C8: while encode holds the read guard of a family, a value update of a
\* member of that family, and an insertion into another family, can be made.
C8_UpdatesNotBlocked ==
    (Enumerating /\ enum.family \in guards) =>
      /\ \A p \in AllPaths :
           (Len(p) = 2 /\ <<p[1]>> = enum.family /\ ops < MaxOps) =>
             /\ MetricAt(p).kind = "Counter" => ENABLED Inc(p)
             /\ MetricAt(p).kind = "Gauge" => \A v \in GaugeVals : ENABLED GaugeSet(p, v)
             /\ MetricAt(p).kind = "Histogram" => \A v \in ObsVals : ENABLED Observe(p, v)
      /\ \A g \in 1..Len(metrics) :
           (metrics[g].kind = "Family" /\ <<g>> # enum.family) =>
             /\ (ins.waiting /\ ins.family = g) => ENABLED InsertCommit
             /\ \A ls \in LabelSets :
                  (/\ ops < MaxOps /\ ~ins.waiting
                   /\ Len(metrics[g].members) < MaxMembers
                   /\ \A j \in 1..Len(metrics[g].members) :
                        metrics[g].members[j].labels # ls)
                  => ENABLED InsertBegin(g, ls)

\* The guard of one family is held, a member of it can be updated and a
\* label set be inserted into the other family
C8_Witness ==
    /\ Enumerating /\ enum.family \in guards
    /\ Len(metrics) = 2 /\ metrics[1].kind = "Family" /\ metrics[2].kind = "Family"
    /\ enum.family = <<1>> /\ Len(metrics[1].members) = 1
    /\ ops < MaxOps /\ ~ins.waiting
    /\ ENABLED Inc(<<1, 1>>)
    /\ ENABLED InsertBegin(2, <<>>)

\* C9: two encode calls on the same registry, with no value changed and no
\* label set inserted between or during them, write the same bytes.
C9_Deterministic ==
    (EncodedOk /\ prev.valid /\ ~dirty) => Concat(out) = Concat(prev.out)

\* The second call returned; the registry holds a family with two members
C9_Witness ==
    /\ EncodedOk /\ prev.valid /\ ~dirty /\ passes = 2
    /\ Len(registry) >= 1 /\ metrics[1].kind = "Family"
    /\ Len(metrics[1].members) = 2
    /\ Len(out) > 1

\* The name and unit every sample line of entry i starts with
NameUnit(i) ==
    registry[i].name \o
    (IF registry[i].unit.some THEN "_" \o UnitToken(registry[i].unit.v) ELSE "")

\* The values a counter that now reads v may have been read at. Gauges are
\* set to one of GaugeVals or still read 0.
CounterReads(v) == {Itoa(k) : k \in 0..v}
GaugeReads == {Itoa(0)} \cup {Itoa(v) : v \in GaugeVals}

\* C11: a Counter emits exactly one sample line, its name ending in _total,
\* with no le label and the counter's value; a Gauge emits exactly one sample
\* line with no suffix after name and unit, no le label and the gauge's
\* reading.  As members of a family every counter line has the _total
\* suffix and no gauge line has a suffix.
C11_CounterGaugeLines ==
    EncodedOk =>
      LET L == LinesOf(out) IN
      \A i \in 1..Len(registry) :
        LET S == SamplesOf(L, i) IN
        /\ metrics[i].kind = "Counter" =>
             /\ Len(S) = 1
             /\ \E v \in IF dirty THEN CounterReads(metrics[i].value)
                         ELSE {Itoa(metrics[i].value)} :
                  Concat(S[1]) = NameUnit(i) \o "_total " \o v \o "\n"
        /\ metrics[i].kind = "Gauge" =>
             /\ Len(S) = 1
             /\ \E v \in IF dirty THEN GaugeReads ELSE {Itoa(metrics[i].value)} :
                  Concat(S[1]) = NameUnit(i) \o " " \o v \o "\n"
        /\ (metrics[i].kind = "Family" /\ metrics[i].child.kind = "Counter") =>
             /\ ~dirty => Len(S) = Len(metrics[i].members)
             /\ \A k \in 1..Len(S) :
                  /\ SuffixOf(S[k], i) = "total" /\ LeOf(S[k]) = None
                  /\ ~dirty => ValueOf(S[k]) = Itoa(metrics[i].members[k].m.value)
        /\ (metrics[i].kind = "Family" /\ metrics[i].child.kind = "Gauge") =>
             /\ ~dirty => Len(S) = Len(metrics[i].members)
             /\ \A k \in 1..Len(S) :
                  /\ SuffixOf(S[k], i) = "" /\ LeOf(S[k]) = None
                  /\ ~dirty => ValueOf(S[k]) = Itoa(metrics[i].members[k].m.value)

\* A counter incremented once and a gauge set to 3, then encoded
C11_Witness ==
    /\ EncodedOk /\ ~dirty /\ Len(registry) = 2
    /\ metrics[1].kind = "Counter" /\ metrics[1].value = 1
    /\ metrics[2].kind = "Gauge" /\ metrics[2].value = 3
    /\ \E k \in 1..Len(out) : out[k] = "total" /\ out[k + 1] = " " /\ out[k + 2] = "1"
    /\ Concat(SamplesOf(LinesOf(out), 2)[1]) = "my_gauge 3\n"

\* The member of family entry i that sample line k comes from, when no label
\* set was inserted since the call began
MemberOfLine(i, k) ==
    IF metrics[i].child.kind = "Histogram"
    THEN ((k - 1) \div (Len(metrics[i].child.buckets) + 2)) + 1
    ELSE k

\* Sample line l of entry i carries the label set ls in one pair of braces
\* (on a bucket line the le label follows it inside the same pair)
CarriesLabelSet(l, i, ls) ==
    LET sfx == IF SuffixOf(l, i) # "" THEN "_" \o SuffixOf(l, i) ELSE ""
        rest == IF SuffixOf(l, i) = "bucket"
                THEN ", le=\"" \o LeOf(l).v \o "\"} "
                ELSE "} "
    IN Concat(l) = NameUnit(i) \o sfx \o "{" \o JoinLabels(ls) \o rest \o
                   ValueOf(l) \o "\n"

BraceChunks == {"{", "}", "\"}", ",", ", "}

\* C12: a label set given as a sequence of (name, value) pairs is rendered as
\* name="value" entries in sequence order, joined by single commas, with no
\* trailing comma, inside exactly one pair of braces on the sample line; a
\* metric with no label set attached has no brace on its non-bucket lines.
C12_LabelSetRendering ==
    EncodedOk =>
      LET L == LinesOf(out) IN
      \A i \in 1..Len(registry) :
        LET S == SamplesOf(L, i) IN
        IF metrics[i].kind = "Family"
        THEN \A k \in 1..Len(S) :
               IF ~dirty
               THEN /\ MemberOfLine(i, k) <= Len(metrics[i].members)
                    /\ CarriesLabelSet(S[k], i,
                          metrics[i].members[MemberOfLine(i, k)].labels)
               ELSE \E ls \in LabelSets : CarriesLabelSet(S[k], i, ls)
        ELSE \A k \in 1..Len(S) :
               SuffixOf(S[k], i) # "bucket" =>
                 \A c \in 1..Len(S[k]) : S[k][c] \notin BraceChunks

\* The documented label set, on a counter of a family
C12_Witness ==
    /\ EncodedOk /\ ~dirty
    /\ \E i \in 1..Len(registry) :
         /\ metrics[i].kind = "Family" /\ Len(metrics[i].members) = 1
         /\ Concat(SamplesOf(LinesOf(out), i)[1]) =
              "my_counter_family_total{method=\"GET\",status=\"200\"} 0\n"

\* What a metric writes when its encode is called on its own with encoder
\* enc and a sink that takes every write: Counter::encode, Gauge::encode,
\* Histogram::encode (lines 1 .. N + 2 of one snapshot), Family::encode
RECURSIVE histogram_encode(_, _, _, _)
histogram_encode(enc, w, snap, l) ==
    IF l > Len(snap.buckets) + 2 THEN Ok(w)
    ELSE LET r == histogram_line(enc, w, snap, l)
         IN IF ~r.ok THEN r ELSE histogram_encode(enc, r.w, snap, l + 1)

RECURSIVE metric_encode(_, _, _)
RECURSIVE family_encode(_, _, _, _)
family_encode(members, enc, w, j) ==
    IF j > Len(members) THEN Ok(w)
    ELSE LET r == metric_encode(members[j].m,
                                with_label_set(enc, members[j].labels), w)
         IN IF ~r.ok THEN r ELSE family_encode(members, enc, r.w, j + 1)

metric_encode(m, enc, w) ==
    CASE m.kind = "Counter" -> counter_encode(enc, w, m.value)
      [] m.kind = "Gauge" -> gauge_encode(enc, w, m.value)
      [] m.kind = "Histogram" ->
           histogram_encode(enc, w, [sum |-> m.sum, count |-> m.count,
                                     buckets |-> m.buckets], 1)
      [] m.kind = "Family" -> family_encode(m.members, enc, w, 1)

\* The token of each metric kind on a TYPE line
TypeToken(m) ==
    LET kind == IF m.kind = "Family" THEN m.child.kind ELSE m.kind
    IN CASE kind = "Counter" -> "counter"
         [] kind = "Gauge" -> "gauge"
         [] kind = "Histogram" -> "histogram"

\* C13: the token on an entry's TYPE line is counter, gauge or histogram by
\* the kind of the registered metric, a Family having the kind of its child;
\* an entry held as Box<dyn EncodeMetric> or Box<dyn SendEncodeMetric> has
\* the type token of the metric it wraps and the sample bytes that metric
\* writes when encoded on its own.
C13_TypeTagAndBox ==
    EncodedOk =>
      LET L == LinesOf(out) IN
      \A i \in 1..Len(registry) :
        LET T == L[EntryFirst(L, i) + 1]
            S == SamplesOf(L, i)
        IN /\ IsType(T)
           /\ Len(T) >= 3 /\ T[Len(T)] = "\n" /\ T[Len(T) - 1] = TypeToken(metrics[i])
           /\ Concat(T) = "# TYPE " \o NameUnit(i) \o " " \o TypeToken(metrics[i]) \o "\n"
           /\ ~dirty =>
                Concat([k \in 1..Len(S) |-> Concat(S[k])]) =
                  Concat(metric_encode(metrics[i],
                                       Encoder(registry[i].name, registry[i].unit, None),
                                       Writer(<<>>, 0, -1, "")).w.written)

\* A boxed family of counters with a member, and a boxed histogram
C13_Witness ==
    /\ EncodedOk /\ ~dirty /\ Len(registry) = 2
    /\ boxes[1] \in Dyns /\ boxes[2] \in Dyns
    /\ metrics[1].kind = "Family" /\ metrics[1].child.kind = "Counter"
    /\ Len(metrics[1].members) = 1
    /\ metrics[2].kind = "Histogram" /\ metrics[2].count = 1
    /\ \E k \in 1..Len(out) : out[k] = "histogram"
    /\ \E k \in 1..Len(out) : out[k] = "+Inf"

\* A sample line in the token order name, unit, suffix, labels, bucket label,
\* value, newline: it starts with the name and unit, has one value, written
\* right after the one closing brace of the label block if one was opened
StagedLine(l, enc) ==
    LET nu == IF enc.unit.some THEN <<enc.name, "_", UnitToken(enc.unit.v)>>
              ELSE <<enc.name>>
        n == Len(l)
        Opens == {k \in 1..n : l[k] = "{"}
        Closes == {k \in 1..n : l[k] \in {"}", "\"}"}}
        Spaces == {k \in 1..n : l[k] = " "}
    IN /\ n >= Len(nu) + 3
       /\ SubSeq(l, 1, Len(nu)) = nu
       /\ \A k \in (Len(nu) + 1)..n : l[k] # enc.name
       /\ l[n] = "\n" /\ Spaces = {n - 2}
       /\ Cardinality(Opens) <= 1 /\ Cardinality(Closes) = Cardinality(Opens)
       /\ \A o \in Opens, c \in Closes : o < c /\ c = n - 3

\* C14: for every sequence of calls the staged API permits, the bytes written
\* form sample lines in the token order name, unit, suffix, labels, bucket
\* label, value, newline: no value while a label block is open, no label
\* block closed more than once or left unclosed, no value without a
\* bucket/no-bucket decision for its line.
C14_StagedTokenOrder ==
    handle.live = "returned" =>
      LET L == LinesOf(out) IN
      \A k \in 1..Len(L) : StagedLine(L[k], handle.enc)

\* C15: a label set is attached at most once per sample.  with_label_set on
\* an encoder that already carries a label set (a family whose members are
\* families) is stopped by an assertion: it yields no encoder, so no encode
\* runs under a Family::encode that was itself given a label set and no
\* sample line is written for such a family with the first label set
\* replaced by the second; and encode returns no error value for it.
C15_LabelSetAttachedOnce ==
    /\ \A k \in 1..(Len(frames) - 1) : ~frames[k].enc.labels.some
    /\ EncodedErr => raised # ""
    /\ EncodedOk =>
         \A i \in 1..Len(registry) :
           (metrics[i].kind = "Family" /\ metrics[i].child.kind = "Family") =>
             SamplesOf(LinesOf(out), i) = <<>>

\* How often chunk c occurs in line l
Count(l, c) == Cardinality({k \in 1..Len(l) : l[k] = c})

\* The place of the chunk after name, unit and suffix in a line of entry i
AfterSuffix(l, i) ==
    (IF registry[i].unit.some THEN 4 ELSE 2) + (IF SuffixOf(l, i) # "" THEN 2 ELSE 0)

\* C16: on a _bucket line the le label is inside the label block of the
\* attached label set: after a block the Suffixed stage opened comes ", ",
\* else a fresh "{"; then le="<bound>", one closing brace, and the value.
\* On a non-bucket line "}" is written if and only if the block was opened.
C16_BucketLabelBlock ==
    EncodedOk =>
      LET L == LinesOf(out) IN
      \A i \in 1..Len(registry) :
        LET S == SamplesOf(L, i)
            labelled == metrics[i].kind = "Family"
        IN \A k \in 1..Len(S) :
             LET l == S[k]
                 n == Len(l)
                 q == AfterSuffix(l, i)
             IN /\ Count(l, "{") = (IF labelled \/ SuffixOf(l, i) = "bucket" THEN 1 ELSE 0)
                /\ Count(l, "{") = 1 => l[q] = "{"
                /\ IF SuffixOf(l, i) = "bucket"
                   THEN /\ Count(l, "le=\"") = 1 /\ l[n - 5] = "le=\""
                        /\ l[n - 6] = (IF labelled THEN ", " ELSE "{")
                        /\ Count(l, ", ") = (IF labelled THEN 1 ELSE 0)
                        /\ Count(l, "\"}") = 1 /\ l[n - 3] = "\"}"
                        /\ Count(l, "}") = 0
                   ELSE /\ Count(l, "le=\"") = 0 /\ Count(l, "\"}") = 0
                        /\ Count(l, ", ") = 0
                        /\ Count(l, "}") = Count(l, "{")
                        /\ labelled => l[n - 3] = "}"
                /\ l[n - 2] = " " /\ l[n] = "\n"

\* A histogram of a family with a label set, and a histogram on its own
C16_Witness ==
    /\ EncodedOk /\ Len(registry) = 2
    /\ metrics[1].kind = "Family" /\ metrics[1].child.kind = "Histogram"
    /\ Len(metrics[1].members) = 1 /\ metrics[1].members[1].labels # <<>>
    /\ metrics[2].kind = "Histogram"
    /\ \E k \in 1..Len(out) : out[k] = "\"" /\ out[k + 1] = ", " /\ out[k + 2] = "le=\""
    /\ \E k \in 1..Len(out) : out[k] = "bucket" /\ out[k + 1] = "{" /\ out[k + 2] = "le=\""

\* The sample lines a member of a family of this child kind has
LinesPerMember(child) ==
    IF child.kind = "Histogram" THEN Len(child.buckets) + 2 ELSE 1

\* The lines of S that belong to the j-th member encoded
Block(S, per, j) == SubSeq(S, (j - 1) * per + 1, j * per)

\* Every line of g carries label set ls, and the name and unit of entry i
BlockCarries(g, i, ls) == \A k \in 1..Len(g) : CarriesLabelSet(g[k], i, ls)

\* C17: a Family with k (label set, child) pairs emits, for each pair in the
\* mapping's iteration order, exactly the sample lines the child emits on its
\* own (1 for a Counter or Gauge, N + 2 for a Histogram), each carrying that
\* pair's label set and the family's name and unit; the lines of one member
\* are not interleaved with another's; with no member there is no sample line.
C17_FamilyMembers ==
    EncodedOk =>
      LET L == LinesOf(out) IN
      \A i \in 1..Len(registry) :
        metrics[i].kind = "Family" =>
          LET S == SamplesOf(L, i)
              per == LinesPerMember(metrics[i].child)
              mem == metrics[i].members
              enc == Encoder(registry[i].name, registry[i].unit, None)
          IN /\ Len(S) % per = 0
             /\ \A j \in 1..(Len(S) \div per) :
                  \E ls \in LabelSets : BlockCarries(Block(S, per, j), i, ls)
             /\ ~dirty =>
                  /\ Len(S) = per * Len(mem)
                  /\ mem = <<>> => S = <<>>
                  /\ \A j \in 1..Len(mem) :
                       /\ BlockCarries(Block(S, per, j), i, mem[j].labels)
                       /\ Concat([k \in 1..per |-> Concat(Block(S, per, j)[k])]) =
                            Concat(metric_encode(mem[j].m,
                                                 with_label_set(enc, mem[j].labels),
                                                 Writer(<<>>, 0, -1, "")).w.written)
             /\ (enum.family = <<i>> /\ enum.ended) =>
                  /\ Len(S) = per * Len(enum.emitted)
                  /\ \A j \in 1..Len(enum.emitted) :
                       BlockCarries(Block(S, per, j), i, enum.emitted[j].labels)

\* A family of histograms with two members
C17_Witness ==
    /\ EncodedOk /\ ~dirty
    /\ \E i \in 1..Len(registry) :
         /\ metrics[i].kind = "Family" /\ metrics[i].child.kind = "Histogram"
         /\ Len(metrics[i].members) = 2
         /\ Len(SamplesOf(LinesOf(out), i)) = 2 * (NumBuckets + 2)

\* The states a histogram can be in: never observed, or observed up to
\* MaxOps times
RECURSIVE HistAfter(_)
HistAfter(n) ==
    IF n = 0 THEN {NewHistogram}
    ELSE HistAfter(n - 1) \cup
         {observe(h, v) : h \in HistAfter(n - 1), v \in ObsVals}

\* The value line l of a histogram has in the snapshot snap
SnapValue(snap, l) ==
    IF l = 1 THEN Dtoa(snap.sum)
    ELSE IF l = 2 THEN Itoa(snap.count)
    ELSE Itoa(snap.buckets[l - 2][2])

\* C18: all sample lines of one histogram in one pass (_sum, _count, every
\* _bucket) carry the values of one snapshot, read once before the first of
\* them is written; an observation made while they are written changes none
\* of them.
C18_HistogramSnapshot ==
    /\ pc = "hist" =>
         LET L == LinesOf(out)
             g == SubSeq(L, Len(L) - (hl - 1) + 1, Len(L))
         IN /\ Len(L) >= hl - 1
            /\ \A k \in 1..(hl - 1) : ValueOf(g[k]) = SnapValue(hsnap, k)
    /\ EncodedOk =>
         LET L == LinesOf(out) IN
         \A i \in 1..Len(registry) :
           LET S == SamplesOf(L, i)
               per == NumBuckets + 2
           IN (metric_type(metrics[i]) = "Histogram") =>
                \A j \in 1..(Len(S) \div per) :
                  \E h \in HistAfter(MaxOps) :
                    IsHistogramGroup(Block(S, per, j), h, i, TRUE)

\* The histogram is observed after its _sum and _count lines were written
\* and before its bucket lines are
C18_Witness ==
    /\ pc = "hist" /\ hl = 3
    /\ MetricAt(Path).count = hsnap.count + 1
    /\ hsnap.count = 1

\* C19: the read guard Family::encode takes on a family's mapping is released
\* on every way out of the enumeration, after the last member and when a
\* child's encode returns a sink error part-way, so a thread blocked
\* inserting a label set into that family eventually proceeds.
C19_GuardReleased ==
    (ins.waiting /\ <<ins.family>> \in guards) ~> (~ins.waiting /\ guards = {})

\* The enumeration was cut short by a sink error while a thread waited to
\* insert into the family, and the insertion has been made since
C19_Witness ==
    /\ EncodedErr /\ enum.family # <<>> /\ ~enum.ended /\ enum.emitted # <<>>
    /\ guards = {}
    /\ ~ins.waiting
    /\ Len(MetricAt(enum.family).members) > Len(enum.atLock)

=============================================================================
